---- MODULE Spec2Model ----
(***************************************************************************)
(* Ion: a process-local telemetry pipeline (structured logging over zap,   *)
(* with an OpenTelemetry log exporter and tracer).  The model follows the  *)
(* current iteration of the code: ion.go, logger_impl.go, context.go and   *)
(* internal/core/{logger_factory,otel,constants}.go.                       *)
(***************************************************************************)
EXTENDS Integers, Sequences, FiniteSets, TLC

VARIABLES
    state,          \* "Uninitialized" | "Active" | "Failed" (New returned an error)
    cfg,            \* the Config given to New
    atomicLvl,      \* zapLogger.atomicLvl: the master gate
    cores,          \* the cores NewZapLogger combined (a Tee of them, or a Nop core when empty)
    onFatal,        \* the zap.Logger's fatal hook
    otelProvider,   \* zapLogger.otelProvider: "nil" | "set"
    tracerProvider, \* Ion.tracerProvider: "nil" | "set"
    warnings,       \* the []Warning New returned
    out,            \* per physical destination, the records it has received, in order
    wpc,            \* per caller: its position inside a log call
    writes,         \* history: one entry per log call issued
    exited,         \* the process called os.Exit
    panicked,       \* a call unwound its caller
    otelStopped,    \* the log provider's Shutdown has been invoked
    tracerStopped,  \* the tracer provider's Shutdown has been invoked
    sd,             \* the Shutdown call in progress (or idle)
    events,         \* history: every collaborator invocation made by a Shutdown call
    results,        \* history: one entry per Shutdown call that returned
    nSetLevel,      \* number of SetLevel calls made (bounds the run)
    globalLogger,   \* the package-level logger: "nil" until SetGlobal, then "ion"
    errorOutput,    \* zap's internal error output: the write errors it reported
    zapFieldPool,   \* the field buffers lying in the sync.Pool
    buffers,        \* per field buffer, the zap fields it holds now
    pcall,          \* per caller: its position inside a pooled log call
    pooled,         \* history: one entry per pooled log call issued
    children,       \* the child loggers With has built
    constructed,    \* history: the components New set up, with the outcome, in order
    got,            \* history: what each GetGlobal call found stored and returned
    tracingDisabledLogged, \* the package variable of that name
    tpc,            \* per caller: its position inside a Tracer call
    tracerOut,      \* history: the warning lines printed and the tracers returned
    made,           \* the Fields built by the constructors, and their conversions
    derived,        \* the loggers With and Named have returned, in order
    setBy,          \* history: the loggers SetLevel was called on (0 is the one New returned)
    wrapped         \* the filtering cores built so far, and what their inner cores were handed

vars == <<state, cfg, atomicLvl, cores, onFatal, otelProvider, tracerProvider,
          warnings, out, wpc, writes, exited, panicked, otelStopped,
          tracerStopped, sd, events, results, nSetLevel, globalLogger, errorOutput,
          zapFieldPool, buffers, pcall, pooled, children, constructed, got,
          tracingDisabledLogged, tpc, tracerOut, made, derived, setBy, wrapped>>

\* The state of the Tracer accessor.
tracerVars == <<tracingDisabledLogged, tpc, tracerOut>>

\* The state of the pooled field conversion.
poolVars == <<zapFieldPool, buffers, pcall, pooled, children>>

\* The state of the logger proper.
loggerVars == <<state, cfg, atomicLvl, cores, onFatal, otelProvider, tracerProvider,
                warnings, out, wpc, writes, panicked, otelStopped,
                tracerStopped, sd, events, results, nSetLevel, globalLogger, errorOutput,
                constructed, got, setBy>>

(***************************************************************************)
(* Bounds of the model.                                                    *)
(***************************************************************************)
MaxWrites == 2
MaxSetLevels == 1
MaxShutdowns == 2
MaxUint == 7
MaxDerived == 2
MaxDerivedShutdowns == 1
MaxFilterWiths == 1
MaxFilterWrites == 1

Writers == {"w1", "w2"}

(***************************************************************************)
(* zapcore levels (zapcore.Level is an int8; Debug is -1, Info is 0).      *)
(***************************************************************************)
DebugLevel == -1
InfoLevel == 0
WarnLevel == 1
ErrorLevel == 2
DPanicLevel == 3
PanicLevel == 4
FatalLevel == 5

SentinelKey == "__ion_ctx__"

\* parseLevel: unknown names (and the empty string) fall back to info.
parseLevel(level) ==
    CASE level = "debug" -> DebugLevel
      [] level = "info" -> InfoLevel
      [] level \in {"warn", "warning"} -> WarnLevel
      [] level = "error" -> ErrorLevel
      [] level = "fatal" -> FatalLevel
      [] OTHER -> InfoLevel

\* zapcore.Level.Enabled, as used by AtomicLevel.Enabled and by the io cores.
LevelEnabled(min, lvl) == lvl >= min

(***************************************************************************)
(* Configuration.                                                          *)
(***************************************************************************)
MkConfig(level, cOn, cLvl, split, fOn, fPath, fLvl, oOn, oEnd, oLvl, tOn) ==
    [Level |-> level,
     Console |-> [Enabled |-> cOn, Level |-> cLvl, ErrorsToStderr |-> split],
     File |-> [Enabled |-> fOn, Path |-> fPath, Level |-> fLvl],
     OTEL |-> [Enabled |-> oOn, Endpoint |-> oEnd, Level |-> oLvl],
     Tracing |-> [Enabled |-> tOn]]

ValidLevels == {"debug", "info", "warn", "warning", "error", "fatal"}

\* Config.Validate: the checks that bear on the sinks.
\* A validation that looks at the level alone.
ValidateLevelOnly(c) == c.Level /= "" => c.Level \in ValidLevels

Validate(c) ==
    /\ (c.Level /= "" => c.Level \in ValidLevels)
    /\ (c.File.Enabled => c.File.Path /= "")
    /\ (c.OTEL.Enabled => c.OTEL.Endpoint /= "")
    /\ (c.Tracing.Enabled => c.OTEL.Endpoint /= "")

\* The sink-specific levels of NewZapLogger, each defaulting to the global one.
globalLevel(c) == parseLevel(c.Level)
consoleLevel(c) == IF c.Console.Level /= "" THEN parseLevel(c.Console.Level) ELSE globalLevel(c)
fileLevel(c) == IF c.File.Level /= "" THEN parseLevel(c.File.Level) ELSE globalLevel(c)
otelLevel(c) == IF c.OTEL.Level /= "" THEN parseLevel(c.OTEL.Level) ELSE globalLevel(c)


\* A variant of minLevel that ignores the sinks (the gate of the earlier factory).
minLevelGlobalOnly(c) == globalLevel(c)

\* minLevel: starts at the global level and is lowered by every ENABLED sink
\* whose level is more verbose.
minLevel(c) ==
    LET m0 == globalLevel(c)
        m1 == IF c.Console.Enabled /\ consoleLevel(c) < m0 THEN consoleLevel(c) ELSE m0
        m2 == IF c.File.Enabled /\ fileLevel(c) < m1 THEN fileLevel(c) ELSE m1
        m3 == IF c.OTEL.Enabled /\ otelLevel(c) < m2 THEN otelLevel(c) ELSE m2
    IN m3

(***************************************************************************)
(* Cores.  A core is [stream, level, band, filterKeys]: the io core (or    *)
(* the level-enforced otelzap core) wrapped in a filteringCore.            *)
(***************************************************************************)
Streams == {"stdout", "stderr", "file", "otel"}
LocalStreams == {"stdout", "stderr", "file"}

Core(stream, level, band, keys) ==
    [stream |-> stream, level |-> level, band |-> band, filterKeys |-> keys]

\* A split that builds the two stream cores without their severity bands.
buildConsoleCoresUnbanded(c, level) ==
    IF c.Console.ErrorsToStderr
    THEN << [stream |-> "stdout", level |-> level, band |-> "all"],
            [stream |-> "stderr", level |-> level, band |-> "all"] >>
    ELSE << [stream |-> "stdout", level |-> level, band |-> "all"] >>

\* buildConsoleCores: one stdout core, or a stdout/stderr pair split at warn.
buildConsoleCores(c, level) ==
    IF c.Console.ErrorsToStderr
    THEN << [stream |-> "stdout", level |-> level, band |-> "belowWarn"],
            [stream |-> "stderr", level |-> level, band |-> "warnUp"] >>
    ELSE << [stream |-> "stdout", level |-> level, band |-> "all"] >>

\* The split of the earlier console cores: the stderr core took everything
\* from warn up, whatever the configured level.
CoreEnabledStderrFromWarn(core, lvl) ==
    CASE core.band = "belowWarn" -> LevelEnabled(core.level, lvl) /\ lvl < WarnLevel
      [] core.band = "warnUp" -> lvl >= WarnLevel
      [] OTHER -> LevelEnabled(core.level, lvl)

\* The LevelEnabler of a core: the configured level, cut by the split band.
CoreEnabled(core, lvl) ==
    /\ LevelEnabled(core.level, lvl)
    /\ CASE core.band = "belowWarn" -> lvl < WarnLevel
         [] core.band = "warnUp" -> lvl >= WarnLevel
         [] OTHER -> TRUE

\* The keys the factory hands to NewFilteringCore for each kind of sink.
OtelFilterKeys == {SentinelKey}
LocalFilterKeys == {SentinelKey}

WrapAll(cs, keys) ==
    [i \in DOMAIN cs |-> Core(cs[i].stream, cs[i].level, cs[i].band, keys)]

\* NewFilteringCore around a core that has no context yet.  `attached` is
\* history: the fields given to With on the way to this wrapper.
NewFilteringCore(keys) == [filterKeys |-> keys, context |-> << >>, attached |-> << >>]

\* The wrappers of the factories: the sentinel key for every sink, and the
\* readable correlation keys for the remote sink of the earlier factory.
FactoryWrappers ==
    << NewFilteringCore({SentinelKey}), NewFilteringCore({"trace_id", "span_id"}) >>

\* Step 2 of NewZapLogger: the cores in the order they are appended.
BuildCores(c, otelCoreSet) ==
    LET console == IF c.Console.Enabled
                   THEN WrapAll(buildConsoleCores(c, consoleLevel(c)), LocalFilterKeys)
                   ELSE << >>
        file == IF c.File.Enabled /\ c.File.Path /= ""
                THEN << Core("file", fileLevel(c), "all", LocalFilterKeys) >>
                ELSE << >>
        otel == IF otelCoreSet
                THEN << Core("otel", otelLevel(c), "all", OtelFilterKeys) >>
                ELSE << >>
    IN console \o file \o otel

\* A fatal hook that zap treats as "no override" (zapcore.WriteThenNoop).
WriteThenNoopHook == "WriteThenNoop"

\* The hook NewZapLogger installs with zap.WithFatalHook.
FactoryFatalHook == "noExitHook"

\* zap's terminalHookOverride: nil and WriteThenNoop are refused as overrides
\* of a terminal level and the default hook is kept.
terminalHookOverride(defaultHook, override) ==
    IF override \in {"nil", "WriteThenNoop"} THEN defaultHook ELSE override

\* zap.Logger.check: what follows the write of an entry of the given level.
TerminalHook(lvl, fatalHook) ==
    CASE lvl = FatalLevel -> terminalHookOverride("WriteThenFatal", fatalHook)
      [] lvl = PanicLevel -> "WriteThenPanic"
      [] OTHER -> "WriteThenNoop"

\* The zap level Critical logs at (l.zap.Fatal).
CriticalLevel == FatalLevel

(***************************************************************************)
(* Propagation contexts.  A context is nil, one of the two empty           *)
(* singletons, or a derived context that may hold a valid OTEL span        *)
(* context and the values set by WithTraceID / WithRequestID / WithUserID. *)
(* spanIDKey is read by the extraction but no function of the package      *)
(* sets it, so its value is always absent.                                 *)
(***************************************************************************)
Ctx(name, kind, span, trace, req, user) ==
    [name |-> name, kind |-> kind, spanValid |-> span,
     traceID |-> trace, requestID |-> req, userID |-> user]

CtxNil == Ctx("nil", "nil", FALSE, "", "", "")
CtxBackground == Ctx("background", "background", FALSE, "", "", "")
CtxTODO == Ctx("todo", "todo", FALSE, "", "", "")
CtxDerivedEmpty == Ctx("derived", "derived", FALSE, "", "", "")
CtxTraced == Ctx("traced", "derived", TRUE, "", "", "")
CtxManual == Ctx("manual", "derived", FALSE, "t-1", "", "")
CtxRequest == Ctx("request", "derived", FALSE, "", "req-1", "user-1")
CtxTracedRequest == Ctx("tracedreq", "derived", TRUE, "t-1", "req-1", "")

AllContexts == {CtxNil, CtxBackground, CtxTODO, CtxDerivedEmpty, CtxTraced,
                CtxManual, CtxRequest, CtxTracedRequest}

\* The identifiers of the one valid span context of the model.
ActiveTraceID == "4bf92f3577b34da6a3ce929d0e0e4736"
ActiveSpanID == "00f067aa0ba902b7"

(***************************************************************************)
(* Fields.  An ion Field and a zapcore.Field are both tagged unions with   *)
(* one slot per payload kind; an interface value is [kind, s].             *)
(***************************************************************************)
\* An interface value: its dynamic type, and the payload as text or number.
Iface(kind, str, n) == [kind |-> kind, s |-> str, n |-> n]
NilIface == Iface("nil", "", 0)
ErrIface(msg) == Iface("error", msg, 0)
CtxIface(ctx) == Iface("context", ctx.name, 0)
Uint64Iface(value) == Iface("uint64", "", value)

\* Unsigned integers run from 0 to MaxUint; a signed integer of the same
\* width holds the upper half of them as negative numbers.
Modulus == MaxUint + 1
ToInt64(u) == IF 2 * u >= Modulus THEN u - Modulus ELSE u
ToUint64(i) == IF i < 0 THEN i + Modulus ELSE i

\* Floating-point numbers are written as text; math.Float64bits gives the
\* leading sixteen bits of their IEEE 754 form.
ZeroFloat == "0.0"
Floats == {"0.0", "1.5", "-2.0"}
Float64bits(f) ==
    CASE f = "0.0" -> 0
      [] f = "1.5" -> 16376
      [] f = "-2.0" -> 49152
Float64frombits(b) == CHOOSE f \in Floats : Float64bits(f) = b

Field(key, type, integer, str, float, iface) ==
    [Key |-> key, Type |-> type, Integer |-> integer, StringVal |-> str,
     Float |-> float, Interface |-> iface]

String(key, value) == Field(key, "StringType", 0, value, ZeroFloat, NilIface)
Int64(key, value) == Field(key, "Int64Type", value, "", ZeroFloat, NilIface)
\* Int (the name Int is taken by the integers): int64(value) in the integer slot.
IntField(key, value) == Field(key, "Int64Type", value, "", ZeroFloat, NilIface)
Uint64(key, value) == Field(key, "Uint64Type", 0, "", ZeroFloat, Uint64Iface(value))
Float64(key, value) == Field(key, "Float64Type", 0, "", value, NilIface)
Bool(key, value) == Field(key, "BoolType", IF value THEN 1 ELSE 0, "", ZeroFloat, NilIface)
Err(err) == IF err = "nil"
            THEN Field("error", "AnyType", 0, "", ZeroFloat, NilIface)
            ELSE Field("error", "ErrorType", 0, "", ZeroFloat, ErrIface(err))

\* F: the typed constructor of the value's dynamic type, or an AnyType field.
F(key, value) ==
    CASE value.kind = "string" -> String(key, value.s)
      [] value.kind = "int" -> IntField(key, value.n)
      [] value.kind = "int64" -> Int64(key, value.n)
      [] value.kind = "float64" -> Float64(key, value.s)
      [] value.kind = "bool" -> Bool(key, value.n = 1)
      [] value.kind = "error" -> Err(value.s)
      [] OTHER -> Field(key, "AnyType", 0, "", ZeroFloat, value)

ZField(key, type, integer, str, iface) ==
    [Key |-> key, Type |-> type, Integer |-> integer, String |-> str, Interface |-> iface]

ZString(key, value) == ZField(key, "StringType", 0, value, NilIface)
ZInt64(key, value) == ZField(key, "Int64Type", value, "", NilIface)
ZUint64(key, value) == ZField(key, "Uint64Type", ToInt64(value), "", NilIface)
ZFloat64(key, value) == ZField(key, "Float64Type", Float64bits(value), "", NilIface)
ZBool(key, value) == ZField(key, "BoolType", IF value THEN 1 ELSE 0, "", NilIface)
ZError(err) == ZField("error", "ErrorType", 0, "", ErrIface(err))
ZNamedError(key, err) == ZField(key, "ErrorType", 0, "", ErrIface(err))
ZReflect(key, iface) == ZField(key, "ReflectType", 0, "", iface)

\* zap.Any: the typed zap field of the value's dynamic type, or zap.Reflect.
ZAny(key, value) ==
    CASE value.kind = "string" -> ZString(key, value.s)
      [] value.kind \in {"int", "int64"} -> ZInt64(key, value.n)
      [] value.kind = "uint64" -> ZUint64(key, value.n)
      [] value.kind = "float64" -> ZFloat64(key, value.s)
      [] value.kind = "bool" -> ZBool(key, value.n = 1)
      [] value.kind = "error" -> ZNamedError(key, value.s)
      [] OTHER -> ZReflect(key, value)

\* A conversion that reads an unsigned field from the integer slot.
convertFieldUintFromInteger(f) ==
    CASE f.Type = "StringType" -> ZString(f.Key, f.StringVal)
      [] f.Type = "Uint64Type" -> ZUint64(f.Key, ToUint64(f.Integer))
      [] f.Type = "Float64Type" -> ZFloat64(f.Key, f.Float)
      [] f.Type = "BoolType" -> ZBool(f.Key, f.Integer = 1)
      [] OTHER -> ZInt64(f.Key, f.Integer)

\* convertField: one zap field per ion field, by type tag.
convertField(f) ==
    CASE f.Type = "StringType" -> ZString(f.Key, f.StringVal)
      [] f.Type = "Int64Type" -> ZInt64(f.Key, f.Integer)
      [] f.Type = "Uint64Type" -> ZUint64(f.Key, f.Interface.n)
      [] f.Type = "Float64Type" -> ZFloat64(f.Key, f.Float)
      [] f.Type = "BoolType" -> ZBool(f.Key, f.Integer = 1)
      [] f.Type = "ErrorType" ->
            IF f.Interface.kind = "error" THEN ZError(f.Interface.s)
            ELSE ZAny(f.Key, f.Interface)
      [] OTHER -> ZAny(f.Key, f.Interface)

toZapFields(fields) == [i \in DOMAIN fields |-> convertField(fields[i])]

\* extractContextZapFields: the readable correlation fields of a context.
extractContextZapFields(ctx) ==
    IF ctx.kind = "nil" THEN << >>
    ELSE
      LET trace == IF ctx.spanValid
                   THEN << ZString("trace_id", ActiveTraceID), ZString("span_id", ActiveSpanID) >>
                   ELSE IF ctx.traceID /= "" THEN << ZString("trace_id", ctx.traceID) >>
                   ELSE << >>
          req == IF ctx.requestID /= "" THEN << ZString("request_id", ctx.requestID) >> ELSE << >>
          user == IF ctx.userID /= "" THEN << ZString("user_id", ctx.userID) >> ELSE << >>
      IN trace \o req \o user

\* A variant of the short-circuit that only tests for nil.
hasTraceContextNilOnly(ctx) == ctx.kind /= "nil"

\* The short-circuit of prepareFields: an identity test against nil and the
\* two empty singletons.
hasTraceContext(ctx) == ctx.kind \notin {"nil", "background", "todo"}

\* prepareFields: the converted fields, then (unless short-circuited) the
\* readable correlation fields and the context under the sentinel key.
prepareFields(ctx, fields) ==
    IF hasTraceContext(ctx)
    THEN toZapFields(fields) \o extractContextZapFields(ctx)
                             \o << ZReflect(SentinelKey, CtxIface(ctx)) >>
    ELSE toZapFields(fields)

\* Error and Critical append zap.Error(err) when err is not nil.
withError(zapFields, err) ==
    IF err /= "nil" THEN zapFields \o << ZError(err) >> ELSE zapFields

(***************************************************************************)
(* Construction: ion.New -> core.NewZapLogger, then the tracer provider.   *)
(***************************************************************************)
NoStreams == [s \in Streams |-> << >>]

\* The field buffers that can be alive at once: one per concurrent caller.
\* Buffer 0 stands for the nil pointer.
Buffers == 1..Cardinality(Writers)
IdlePooled == [w \in Writers |-> [pc |-> "idle", id |-> 0, buf |-> 0]]
IdleWriters == [w \in Writers |-> [pc |-> "idle", id |-> 0]]
IdleShutdown == [pc |-> "idle", call |-> 0, kind |-> "", deadline |-> FALSE, cur |-> "",
                 plan |-> << >>, fresh |-> FALSE, failed |-> {}, unfinished |-> {}]

Init ==
    /\ state = "Uninitialized"
    /\ cfg = MkConfig("", FALSE, "", FALSE, FALSE, "", "", FALSE, "", "", FALSE)
    /\ atomicLvl = InfoLevel
    /\ cores = << >>
    /\ onFatal = "nil"
    /\ otelProvider = "nil"
    /\ tracerProvider = "nil"
    /\ warnings = {}
    /\ out = NoStreams
    /\ wpc = IdleWriters
    /\ writes = << >>
    /\ exited = FALSE
    /\ panicked = FALSE
    /\ otelStopped = FALSE
    /\ tracerStopped = FALSE
    /\ sd = IdleShutdown
    /\ events = << >>
    /\ results = << >>
    /\ nSetLevel = 0
    /\ globalLogger = "nil"
    /\ errorOutput = << >>
    /\ zapFieldPool = {}
    /\ buffers = [b \in Buffers |-> << >>]
    /\ pcall = IdlePooled
    /\ pooled = << >>
    /\ children = << >>
    /\ constructed = << >>
    /\ got = << >>
    /\ tracingDisabledLogged = FALSE
    /\ tpc = [w \in Writers |-> [pc |-> "idle", seen |-> FALSE]]
    /\ tracerOut = [warnings |-> 0, results |-> << >>]
    /\ made = << >>
    /\ derived = << >>
    /\ setBy = {}
    /\ wrapped = [cores |-> FactoryWrappers, written |-> << >>]

\* New(cfg).  otelSetup and tracerSetup are the outcomes of SetupLogProvider
\* and SetupTracerProvider ("ok" | "err"), which depend on the environment.
New(c, otelSetup, tracerSetup) ==
    /\ state = "Uninitialized"
    /\ cfg' = c
    /\ IF ~Validate(c)
       THEN \* invalid configuration: an error, no instance
            /\ state' = "Failed"
            /\ constructed' = << >>
            /\ UNCHANGED <<atomicLvl, cores, onFatal, otelProvider, tracerProvider, warnings>>
       ELSE IF c.OTEL.Enabled /\ c.OTEL.Endpoint /= "" /\ otelSetup = "err"
       THEN \* "otel setup failed": NewZapLogger returns the error, and so does New
            /\ state' = "Failed"
            /\ constructed' = << <<"otel", "err">> >>
            /\ UNCHANGED <<atomicLvl, cores, onFatal, otelProvider, tracerProvider, warnings>>
       ELSE LET otelSet == c.OTEL.Enabled /\ c.OTEL.Endpoint /= ""
                tracerSet == c.Tracing.Enabled /\ tracerSetup = "ok"
            IN /\ state' = "Active"
               /\ atomicLvl' = minLevel(c)
               /\ cores' = BuildCores(c, otelSet)
               /\ onFatal' = FactoryFatalHook
               /\ otelProvider' = IF otelSet THEN "set" ELSE "nil"
               /\ tracerProvider' = IF tracerSet THEN "set" ELSE "nil"
               /\ warnings' = IF c.Tracing.Enabled /\ tracerSetup = "err"
                              THEN {"tracing"} ELSE {}
               /\ constructed' = (IF otelSet THEN << <<"otel", "ok">> >> ELSE << >>)
                                     \o << <<"cores", "ok">> >>
                                     \o (IF c.Tracing.Enabled
                                         THEN << <<"tracing", tracerSetup>> >> ELSE << >>)
    /\ UNCHANGED <<poolVars, derived, wrapped, setBy, made, tracerVars, got, globalLogger, errorOutput, out, wpc, writes, exited, panicked, otelStopped, tracerStopped,
                   sd, events, results, nSetLevel>>

(***************************************************************************)
(* The write path: zapLogger.Debug/Info/Warn/Error/Critical, then          *)
(* zap.Logger's check and write over the combined core.                    *)
(***************************************************************************)
\* The lifecycle state of the instance, as the design names it.
Lifecycle ==
    IF state /= "Active" THEN state
    ELSE IF sd.pc = "idle" /\ Len(results) = 0 THEN "Active"
    ELSE IF Len(results) = 0 THEN "Draining"
    ELSE "Closed"

WriteEntry(w, lvl, ctx, err, gated, gate, admitted, zapFields, extracted) ==
    [w |-> w, lvl |-> lvl, ctx |-> ctx.name, err |-> err,
     gated |-> gated, gate |-> gate, admitted |-> admitted, fields |-> zapFields, extracted |-> extracted,
     done |-> ~admitted, phase |-> "", seen |-> 0, via |-> "instance",
     attempts |-> [s \in Streams |-> 0], failed |-> {}]

\* Debug/Info/Warn/Error up to the call into zap: one read of the gate,
\* an early return when it rejects the level, otherwise the fields are prepared.
LogBegin(w, lvl, ctx, err, fields) ==
    /\ state = "Active" /\ ~exited
    /\ wpc[w].pc = "idle"
    /\ Len(writes) < MaxWrites
    /\ lvl \in {DebugLevel, InfoLevel, WarnLevel, ErrorLevel}
    /\ (lvl /= ErrorLevel => err = "nil")
    /\ LET admitted == LevelEnabled(atomicLvl, lvl)
           zf == IF admitted THEN withError(prepareFields(ctx, fields), err) ELSE << >>
       IN /\ writes' = Append(writes, WriteEntry(w, lvl, ctx, err, TRUE, atomicLvl, admitted, zf,
                                                 admitted /\ hasTraceContext(ctx)))
          /\ wpc' = IF admitted
                    THEN [wpc EXCEPT ![w] = [pc |-> "emit", id |-> Len(writes) + 1]]
                    ELSE wpc
    /\ UNCHANGED <<poolVars, derived, wrapped, setBy, made, tracerVars, got, constructed, globalLogger, errorOutput, state, cfg, atomicLvl, cores, onFatal, otelProvider, tracerProvider,
                   warnings, out, exited, panicked, otelStopped, tracerStopped,
                   sd, events, results, nSetLevel>>

\* Critical up to the call into zap: no gate is consulted.
CriticalBegin(w, ctx, err, fields) ==
    /\ state = "Active" /\ ~exited
    /\ wpc[w].pc = "idle"
    /\ Len(writes) < MaxWrites
    /\ writes' = Append(writes, WriteEntry(w, CriticalLevel, ctx, err, FALSE, atomicLvl, TRUE,
                                           withError(prepareFields(ctx, fields), err),
                                           hasTraceContext(ctx)))
    /\ wpc' = [wpc EXCEPT ![w] = [pc |-> "emit", id |-> Len(writes) + 1]]
    /\ UNCHANGED <<poolVars, derived, wrapped, setBy, made, tracerVars, got, constructed, globalLogger, errorOutput, state, cfg, atomicLvl, cores, onFatal, otelProvider, tracerProvider,
                   warnings, out, exited, panicked, otelStopped, tracerStopped,
                   sd, events, results, nSetLevel>>

\* nopLogger: zap.NewNop() (a Nop core, no options, so no fatal hook) with an
\* atomic level of its own at zap's default, info.
nopLogger == [atomicLvl |-> InfoLevel, cores |-> << >>, onFatal |-> "nil"]

\* SetGlobal: stores the given logger.  "nil" is the nil interface, "ion" the
\* instance New returned, "typednil" the nil *Ion New returned with an error.
SetGlobal(logger) ==
    /\ ~exited /\ ~panicked
    /\ logger \in {"nil", "ion", "typednil"}
    /\ (logger = "ion" => state = "Active")
    /\ (logger = "typednil" => state = "Failed")
    /\ globalLogger /= logger
    /\ globalLogger' = logger
    /\ UNCHANGED <<poolVars, derived, wrapped, setBy, made, tracerVars, got, constructed, errorOutput, state, cfg, atomicLvl, cores, onFatal, otelProvider,
                   tracerProvider, warnings, out, wpc, writes, exited, panicked,
                   otelStopped, tracerStopped, sd, events, results, nSetLevel>>

\* GetGlobal, under the read lock: the stored logger unless the interface
\* is nil, nopLogger otherwise.
GetGlobal == IF globalLogger /= "nil" THEN globalLogger ELSE "nop"

\* A caller calls GetGlobal and keeps the result.
GetGlobalCall ==
    /\ ~exited /\ ~panicked
    /\ got' = Append(got, [stored |-> globalLogger, result |-> GetGlobal])
    /\ UNCHANGED <<poolVars, derived, wrapped, setBy, made, tracerVars, constructed, globalLogger, errorOutput, state, cfg, atomicLvl, cores,
                   onFatal, otelProvider, tracerProvider, warnings, out, wpc, writes, exited,
                   panicked, otelStopped, tracerStopped, sd, events, results, nSetLevel>>

\* A method called on a nil *Ion dereferences it: the call panics.
NilReceiverCall(w, lvl, ctx, err) ==
    /\ ~exited /\ ~panicked
    /\ wpc[w].pc = "idle"
    /\ Len(writes) < MaxWrites
    /\ LET e == WriteEntry(w, lvl, ctx, err, FALSE, InfoLevel, FALSE, << >>, FALSE)
       IN writes' = Append(writes, [e EXCEPT !.via = "typednil", !.done = FALSE])
    /\ panicked' = TRUE
    /\ UNCHANGED <<poolVars, derived, wrapped, setBy, made, tracerVars, got, constructed, globalLogger, errorOutput, state, cfg, atomicLvl, cores,
                   onFatal, otelProvider, tracerProvider, warnings, out, wpc, exited,
                   otelStopped, tracerStopped, sd, events, results, nSetLevel>>

\* The package-level Debug/Info/Warn/Error: GetGlobal() is the stored logger,
\* or nopLogger while none is stored, and the call goes to it.
GlobalLogBegin(w, lvl, ctx, err, fields) ==
    IF GetGlobal = "ion"
    THEN LogBegin(w, lvl, ctx, err, fields)
    ELSE IF GetGlobal = "typednil"
    THEN /\ lvl \in {DebugLevel, InfoLevel, WarnLevel, ErrorLevel}
         /\ NilReceiverCall(w, lvl, ctx, err)
    ELSE /\ ~exited
         /\ wpc[w].pc = "idle"
         /\ Len(writes) < MaxWrites
         /\ lvl \in {DebugLevel, InfoLevel, WarnLevel, ErrorLevel}
         /\ (lvl /= ErrorLevel => err = "nil")
         /\ LET admitted == LevelEnabled(nopLogger.atomicLvl, lvl)
                zf == IF admitted THEN withError(prepareFields(ctx, fields), err) ELSE << >>
                e == WriteEntry(w, lvl, ctx, err, TRUE, nopLogger.atomicLvl, admitted, zf,
                                admitted /\ hasTraceContext(ctx))
            IN /\ writes' = Append(writes, [e EXCEPT !.via = "nop"])
               /\ wpc' = IF admitted
                         THEN [wpc EXCEPT ![w] = [pc |-> "emit", id |-> Len(writes) + 1]]
                         ELSE wpc
         /\ UNCHANGED <<poolVars, derived, wrapped, setBy, made, tracerVars, got, constructed, globalLogger, errorOutput, state, cfg, atomicLvl, cores, onFatal,
                        otelProvider, tracerProvider, warnings, out, exited, panicked,
                        otelStopped, tracerStopped, sd, events, results, nSetLevel>>

\* The package-level Critical.
GlobalCriticalBegin(w, ctx, err, fields) ==
    IF GetGlobal = "ion"
    THEN CriticalBegin(w, ctx, err, fields)
    ELSE IF GetGlobal = "typednil"
    THEN NilReceiverCall(w, CriticalLevel, ctx, err)
    ELSE /\ ~exited
         /\ wpc[w].pc = "idle"
         /\ Len(writes) < MaxWrites
         /\ LET e == WriteEntry(w, CriticalLevel, ctx, err, FALSE, nopLogger.atomicLvl, TRUE,
                                withError(prepareFields(ctx, fields), err),
                                hasTraceContext(ctx))
            IN writes' = Append(writes, [e EXCEPT !.via = "nop"])
         /\ wpc' = [wpc EXCEPT ![w] = [pc |-> "emit", id |-> Len(writes) + 1]]
         /\ UNCHANGED <<poolVars, derived, wrapped, setBy, made, tracerVars, got, constructed, globalLogger, errorOutput, state, cfg, atomicLvl, cores, onFatal,
                        otelProvider, tracerProvider, warnings, out, exited, panicked,
                        otelStopped, tracerStopped, sd, events, results, nSetLevel>>

\* filteringCore.Write: the fields whose key is not one of the filter keys,
\* in their original order.
RECURSIVE FilterFields(_, _)
FilterFields(fields, keys) ==
    IF fields = << >> THEN << >>
    ELSE IF Head(fields).Key \in keys THEN FilterFields(Tail(fields), keys)
    ELSE << Head(fields) >> \o FilterFields(Tail(fields), keys)

\* A fan-out that hands an attempted record to every member without asking
\* each one.
CheckedCoresAnyMember(cs, lvl) ==
    IF \E i \in DOMAIN cs : CoreEnabled(cs[i], lvl) THEN DOMAIN cs ELSE {}

\* The cores that zap.Logger.check collects for a level (Tee.Check asks every
\* member; a Nop core, cores = << >>, collects nothing).
CheckedCores(cs, lvl) == {i \in DOMAIN cs : CoreEnabled(cs[i], lvl)}

\* The cores as they filtered when every sink shared the one atomic level.
CoresFollowingGate(cs, gateNow) ==
    [i \in DOMAIN cs |-> [cs[i] EXCEPT !.level = gateNow]]

\* The level each core filters with at write time: its own, fixed at construction.
CoresAtWrite(cs, gateNow) == cs

\* A log provider that goes on taking records after its Shutdown.
RemoteAcceptsAlways(stopped) == TRUE

\* The otelzap core hands the record to the log provider, which takes no
\* record once its Shutdown has been invoked.
RemoteAccepts(stopped) == ~stopped

Record(id, lvl, fields) == [id |-> id, lvl |-> lvl, fields |-> fields]

\* A destination that puts what it receives in front of what it holds.
WriteFirst(received, record) == << record >> \o received

\* The Write of a core's destination: the record follows what was written before.
Write(received, record) == Append(received, record)

\* A pipeline that writes once more to a core whose Write returned an error.
WriteAttemptsRetrying(failed) == IF failed THEN 2 ELSE 1

\* CheckedEntry.Write calls the Write of every collected core once, whatever
\* it returns.
WriteAttempts(failed) == 1

\* zap.Logger.Debug/.../Fatal: check, write to every collected core, report
\* the write errors on zap's error output, then the terminal hook of the
\* fatal level.  `failing` are the local streams whose Write fails this time.
Emit(w, failing) ==
    /\ ~exited /\ ~panicked
    /\ wpc[w].pc = "emit"
    /\ (writes[wpc[w].id].via = "instance" => state = "Active")
    /\ LET id == wpc[w].id
           e == writes[id]
           cs == IF e.via = "nop" THEN nopLogger.cores ELSE CoresAtWrite(cores, atomicLvl)
           targets == CheckedCores(cs, e.lvl)
           hook == TerminalHook(e.lvl, IF e.via = "nop" THEN nopLogger.onFatal ELSE onFatal)
           tried == { cs[i].stream : i \in targets }
           errs == tried \cap failing
       IN /\ out' = [s \in Streams |->
                       IF \E i \in targets : cs[i].stream = s
                          /\ (s = "otel" => RemoteAccepts(otelStopped))
                          /\ s \notin errs
                       THEN LET i == CHOOSE i \in targets : cs[i].stream = s
                            IN Write(out[s], Record(id, e.lvl,
                                          FilterFields(e.fields, cs[i].filterKeys)))
                       ELSE out[s]]
          /\ errorOutput' = IF errs /= {}
                            THEN Append(errorOutput, [id |-> id, streams |-> errs])
                            ELSE errorOutput
          /\ writes' = [writes EXCEPT ![id].done = TRUE,
                                      ![id].phase = Lifecycle,
                                      ![id].seen = Len(events),
                                      ![id].attempts = [s \in Streams |->
                                            IF s \in tried THEN WriteAttempts(s \in errs) ELSE 0],
                                      ![id].failed = errs]
          /\ exited' = (hook = "WriteThenFatal")
          /\ panicked' = (hook = "WriteThenPanic")
    /\ wpc' = [wpc EXCEPT ![w] = [pc |-> "idle", id |-> 0]]
    /\ UNCHANGED <<poolVars, derived, wrapped, setBy, made, tracerVars, got, constructed, globalLogger, state, cfg, atomicLvl, cores, onFatal, otelProvider, tracerProvider,
                   warnings, otelStopped, tracerStopped,
                   sd, events, results, nSetLevel>>

\* A log call during which every sink writes without an error.
LogEmit(w) == Emit(w, {})

\* A log call during which the Write of some local streams fails.
LogEmitFailing(w, failing) ==
    /\ failing /= {}
    /\ failing \subseteq LocalStreams
    /\ Emit(w, failing)

\* bytes.ToLower on the level names that have capitals.
ToLower(level) ==
    CASE level = "Debug" -> "debug"
      [] level = "Error" -> "error"
      [] OTHER -> level

\* zapcore.Level.unmarshalText: lower-case and all-capitals names; the empty
\* string is info.
unmarshalText(level) ==
    CASE level \in {"debug", "DEBUG"} -> [ok |-> TRUE, lvl |-> DebugLevel]
      [] level \in {"info", "INFO", ""} -> [ok |-> TRUE, lvl |-> InfoLevel]
      [] level \in {"warn", "WARN"} -> [ok |-> TRUE, lvl |-> WarnLevel]
      [] level \in {"error", "ERROR"} -> [ok |-> TRUE, lvl |-> ErrorLevel]
      [] level \in {"dpanic", "DPANIC"} -> [ok |-> TRUE, lvl |-> DPanicLevel]
      [] level \in {"panic", "PANIC"} -> [ok |-> TRUE, lvl |-> PanicLevel]
      [] level \in {"fatal", "FATAL"} -> [ok |-> TRUE, lvl |-> FatalLevel]
      [] OTHER -> [ok |-> FALSE, lvl |-> InfoLevel]

\* zapcore.Level.UnmarshalText: the level a name denotes, or an error.  The
\* text is tried as given and then in lower case.
UnmarshalText(level) ==
    IF unmarshalText(level).ok THEN unmarshalText(level) ELSE unmarshalText(ToLower(level))

\* zapcore.Level.String.
LevelString(lvl) ==
    CASE lvl = DebugLevel -> "debug"
      [] lvl = InfoLevel -> "info"
      [] lvl = WarnLevel -> "warn"
      [] lvl = ErrorLevel -> "error"
      [] lvl = DPanicLevel -> "dpanic"
      [] lvl = PanicLevel -> "panic"
      [] lvl = FatalLevel -> "fatal"

\* A GetLevel that reports the configured level.
GetLevelConfigured == LevelString(globalLevel(cfg))

\* GetLevel: the name of the level the gate holds now.
GetLevel == LevelString(atomicLvl)

\* A SetLevel that also moves the minimum of every core.
SetLevelAndSinks(level) ==
    /\ state = "Active" /\ ~exited
    /\ nSetLevel < MaxSetLevels
    /\ nSetLevel' = nSetLevel + 1
    /\ atomicLvl' = IF UnmarshalText(level).ok THEN UnmarshalText(level).lvl ELSE atomicLvl
    /\ cores' = [i \in DOMAIN cores |->
                    [cores[i] EXCEPT !.level = IF UnmarshalText(level).ok
                                              THEN UnmarshalText(level).lvl ELSE @]]
    /\ setBy' = setBy \cup {0}
    /\ UNCHANGED <<poolVars, derived, wrapped, made, tracerVars, got, constructed, globalLogger, errorOutput, state, cfg, onFatal, otelProvider, tracerProvider,
                   warnings, out, wpc, writes, exited, panicked, otelStopped,
                   tracerStopped, sd, events, results>>

\* SetLevel on logger h (0 is the one New returned): stores the level in the
\* gate when the name parses, and does nothing otherwise.
SetLevelOn(h, level) ==
    /\ state = "Active" /\ ~exited
    /\ nSetLevel < MaxSetLevels
    /\ nSetLevel' = nSetLevel + 1
    /\ setBy' = setBy \cup {h}
    /\ atomicLvl' = IF UnmarshalText(level).ok THEN UnmarshalText(level).lvl ELSE atomicLvl
    /\ UNCHANGED <<poolVars, derived, wrapped, made, tracerVars, got, constructed, globalLogger, errorOutput, state, cfg, cores, onFatal, otelProvider, tracerProvider,
                   warnings, out, wpc, writes, exited, panicked, otelStopped,
                   tracerStopped, sd, events, results>>

\* SetLevel on the logger New returned.
SetLevel(level) == SetLevelOn(0, level)

(***************************************************************************)
(* Shutdown: Ion.Shutdown (tracer provider, then the logger) and           *)
(* zapLogger.Shutdown (log provider, then zap's Sync).  A call runs its    *)
(* collaborators one after the other; each invocation blocks the call      *)
(* until the collaborator answers.                                         *)
(***************************************************************************)
\* zapLogger.Shutdown with the two steps in the order of the earlier logger.
zapLoggerShutdownPlanSyncFirst(provider) ==
    << "sync" >> \o (IF provider /= "nil" THEN << "otel" >> ELSE << >>)

\* zapLogger.Shutdown: the log provider (when there is one), then Sync.
zapLoggerShutdownPlan(provider) ==
    (IF provider /= "nil" THEN << "otel" >> ELSE << >>) \o << "sync" >>

\* Ion.Shutdown: the tracer provider (when there is one), then the logger.
IonShutdownPlan(tp, provider) ==
    (IF tp /= "nil" THEN << "tracer" >> ELSE << >>) \o zapLoggerShutdownPlan(provider)

ShutdownPlan(kind) ==
    IF kind = "ion" THEN IonShutdownPlan(tracerProvider, otelProvider)
    ELSE zapLoggerShutdownPlan(otelProvider)

\* A Shutdown that hands its collaborators a context without the deadline.
CollaboratorCtxBackground(deadline) == FALSE

\* The context each collaborator is called with is the caller's own
\* (here: whether it carries a deadline).
CollaboratorCtx(deadline) == deadline

\* errors.Join over the logger's collected errors: all of them.
zapLoggerShutdownResult(errs) == errs

\* Ion.Shutdown keeps the first error: the tracer's if it failed, otherwise
\* the logger's.
IonShutdownResult(tracerFailed, loggerErrs) ==
    IF tracerFailed THEN {"tracer"} ELSE zapLoggerShutdownResult(loggerErrs)

\* What a collaborator may answer.  A provider whose Shutdown was invoked by
\* an earlier call answers at once without error; otherwise its drain may
\* succeed, fail, or not finish.  Sync takes no context and either succeeds
\* or fails.
Outcomes(op, fresh) ==
    IF op = "sync" THEN {"ok", "fail"}
    ELSE IF fresh THEN {"ok", "fail", "unfinished"}
    ELSE {"ok"}

IsStopped(op) ==
    CASE op = "tracer" -> tracerStopped
      [] op = "otel" -> otelStopped
      [] OTHER -> FALSE

\* The call enters collaborator `op`.
Invoke(call, op, rest, base) ==
    /\ sd' = [base EXCEPT !.pc = "running", !.cur = op, !.plan = rest,
                          !.fresh = ~IsStopped(op)]
    /\ events' = Append(events, [call |-> call, op |-> op])
    /\ otelStopped' = (otelStopped \/ op = "otel")
    /\ tracerStopped' = (tracerStopped \/ op = "tracer")

\* A caller issues Shutdown(ctx) on the Ion instance ("ion") or on a
\* zapLogger ("logger"); the first collaborator is entered at once.
ShutdownCall(kind, deadline) ==
    /\ state = "Active" /\ ~exited
    /\ sd.pc = "idle"
    /\ Len(results) < MaxShutdowns
    /\ LET plan == ShutdownPlan(kind)
           base == [IdleShutdown EXCEPT !.call = Len(results) + 1, !.kind = kind,
                                        !.deadline = deadline]
       IN Invoke(Len(results) + 1, Head(plan), Tail(plan), base)
    /\ UNCHANGED <<poolVars, derived, wrapped, setBy, made, tracerVars, got, constructed, globalLogger, errorOutput, state, cfg, atomicLvl, cores, onFatal, otelProvider, tracerProvider,
                   warnings, out, wpc, writes, exited, panicked, results, nSetLevel>>

\* The collaborator in progress answers; the call goes on to the next one,
\* returns, or (a drain that never finishes under a context with no
\* deadline) stays blocked.
ShutdownStep(outcome) ==
    /\ state = "Active"
    /\ sd.pc = "running"
    /\ outcome \in Outcomes(sd.cur, sd.fresh)
    /\ IF outcome = "unfinished" /\ ~CollaboratorCtx(sd.deadline)
       THEN /\ sd' = [sd EXCEPT !.pc = "blocked"]
            /\ UNCHANGED <<events, otelStopped, tracerStopped, results>>
       ELSE LET failed == IF outcome = "ok" THEN sd.failed ELSE sd.failed \cup {sd.cur}
                unfin == IF outcome = "unfinished" THEN sd.unfinished \cup {sd.cur}
                         ELSE sd.unfinished
                after == [sd EXCEPT !.failed = failed, !.unfinished = unfin]
            IN IF sd.plan /= << >>
               THEN /\ Invoke(sd.call, Head(sd.plan), Tail(sd.plan), after)
                    /\ UNCHANGED results
               ELSE /\ sd' = IdleShutdown
                    /\ results' = Append(results,
                          [call |-> sd.call, kind |-> sd.kind, deadline |-> sd.deadline,
                           failed |-> failed, unfinished |-> unfin,
                           err |-> IF sd.kind = "ion"
                                   THEN IonShutdownResult("tracer" \in failed,
                                                          failed \ {"tracer"})
                                   ELSE zapLoggerShutdownResult(failed)])
                    /\ UNCHANGED <<events, otelStopped, tracerStopped>>
    /\ UNCHANGED <<poolVars, derived, wrapped, setBy, made, tracerVars, got, constructed, globalLogger, errorOutput, state, cfg, atomicLvl, cores, onFatal, otelProvider, tracerProvider,
                   warnings, out, wpc, writes, exited, panicked, nSetLevel>>

(***************************************************************************)
(* The pooled field conversion of the level methods (zap.go, the revision  *)
(* with zapFieldPool).  The logger of that revision has no fatal hook.     *)
(***************************************************************************)
\* zapFieldPool.Get: a buffer lying in the pool or, when it gives none, the
\* fresh one New makes.  The result is the set of buffers Get may return.
PoolGet ==
    IF zapFieldPool /= {} THEN zapFieldPool
    ELSE { b \in Buffers : /\ \A w \in Writers : pcall[w].buf /= b
                           /\ \A c \in DOMAIN children : children[c].slice.buf /= b
                           /\ \A c \in Buffers : (c < b) =>
                                  \/ \E w \in Writers : pcall[w].buf = c
                                  \/ \E k \in DOMAIN children : children[k].slice.buf = c }

\* toZapFieldsTransient: what the borrowed buffer holds after the conversion.
toZapFieldsTransient(fields) ==
    [i \in DOMAIN fields |->
        LET f == fields[i]
        IN CASE f.Type = "StringType" -> ZString(f.Key, f.StringVal)
             [] f.Type = "Int64Type" -> ZInt64(f.Key, f.Integer)
             [] f.Type = "Float64Type" -> ZFloat64(f.Key, f.Float)
             [] f.Type = "BoolType" -> ZBool(f.Key, f.Integer = 1)
             [] f.Type = "ErrorType" ->
                   IF f.Interface.kind = "error" THEN ZError(f.Interface.s)
                   ELSE ZAny(f.Key, f.Interface)
             [] OTHER -> ZAny(f.Key, f.Interface)]

\* The level methods that take an error append it to the converted fields.
TakesError(lvl) == lvl \in {ErrorLevel, FatalLevel}
PooledArgs(lvl, err, fields) ==
    IF TakesError(lvl) THEN withError(toZapFieldsTransient(fields), err)
    ELSE toZapFieldsTransient(fields)

\* Debug/Info/Warn/Error/Fatal up to the call of zap: borrow and fill a buffer
\* unless there are no fields, in which case the pointer is nil.
PooledBegin(w, lvl, err, fields) ==
    /\ ~exited
    /\ pcall[w].pc = "idle"
    /\ LET id == Len(pooled) + 1
           args == PooledArgs(lvl, err, fields)
       IN IF Len(fields) = 0
          THEN /\ pcall' = [pcall EXCEPT ![w] = [pc |-> "write", id |-> id, buf |-> 0]]
               /\ pooled' = Append(pooled,
                      [w |-> w, lvl |-> lvl, args |-> args, buf |-> 0, puts |-> 0,
                       written |-> FALSE, read |-> << >>, attrs |-> << >>,
                       exportedDone |-> FALSE, exported |-> << >>, returned |-> FALSE])
               /\ UNCHANGED <<zapFieldPool, buffers>>
          ELSE \E b \in PoolGet :
               /\ zapFieldPool' = zapFieldPool \ {b}
               /\ buffers' = [buffers EXCEPT ![b] = args]
               /\ pcall' = [pcall EXCEPT ![w] = [pc |-> "write", id |-> id, buf |-> b]]
               /\ pooled' = Append(pooled,
                      [w |-> w, lvl |-> lvl, args |-> args, buf |-> b, puts |-> 0,
                       written |-> FALSE, read |-> << >>, attrs |-> << >>,
                       exportedDone |-> FALSE, exported |-> << >>, returned |-> FALSE])
    /\ UNCHANGED <<loggerVars, derived, wrapped, made, tracerVars, exited, children>>

\* l.zap.<Level>(msg, *zapFields...): every core reads the variadic slice
\* before the call returns; the OTEL core converts it into the record it hands
\* to the batch processor.  Fatal then exits the process.
PooledWrite(w) ==
    /\ ~exited
    /\ pcall[w].pc = "write"
    /\ LET id == pcall[w].id
           e == pooled[id]
           seen == IF e.buf = 0 THEN e.args ELSE buffers[e.buf]
       IN /\ pooled' = [pooled EXCEPT ![id] =
                          [e EXCEPT !.written = TRUE, !.read = seen, !.attrs = seen,
                                    !.returned = (e.lvl /= FatalLevel /\ e.buf = 0)]]
          /\ exited' = (e.lvl = FatalLevel)
          /\ pcall' = [pcall EXCEPT ![w] =
                          IF e.lvl = FatalLevel THEN [@ EXCEPT !.pc = "exited"]
                          ELSE IF e.buf = 0 THEN [pc |-> "idle", id |-> 0, buf |-> 0]
                          ELSE [@ EXCEPT !.pc = "put"]]
    /\ UNCHANGED <<loggerVars, derived, wrapped, made, tracerVars, zapFieldPool, buffers, children>>

\* putZapFields: reset the length and hand the buffer back.
putZapFields(w) ==
    /\ ~exited
    /\ pcall[w].pc = "put"
    /\ LET id == pcall[w].id
           b == pcall[w].buf
       IN /\ buffers' = [buffers EXCEPT ![b] = << >>]
          /\ zapFieldPool' = zapFieldPool \cup {b}
          /\ pooled' = [pooled EXCEPT ![id].puts = @ + 1, ![id].returned = TRUE]
          /\ pcall' = [pcall EXCEPT ![w] = [pc |-> "idle", id |-> 0, buf |-> 0]]
    /\ UNCHANGED <<loggerVars, derived, wrapped, made, tracerVars, exited, children>>

\* The batch processor exports, some time after the write, the record the
\* OTEL core built.
PooledExport(id) ==
    /\ ~exited
    /\ id \in DOMAIN pooled
    /\ pooled[id].written
    /\ ~pooled[id].exportedDone
    /\ pooled' = [pooled EXCEPT ![id].exportedDone = TRUE, ![id].exported = pooled[id].attrs]
    /\ UNCHANGED <<loggerVars, derived, wrapped, made, tracerVars, exited, zapFieldPool, buffers, pcall, children>>

\* A With that converted through the pool: the slice the child keeps is a
\* buffer that went back to the pool.
WithSliceTransient(fields) ==
    [buf |-> CHOOSE b \in Buffers : TRUE, heap |-> << >>]

\* With: the slice the child logger keeps is the one toZapFields allocates.
WithSlice(fields) == [buf |-> 0, heap |-> toZapFields(fields)]

\* The fields a child logger reads from the slice it keeps.
ChildFields(c) == IF c.slice.buf = 0 THEN c.slice.heap ELSE buffers[c.slice.buf]

With(fields) ==
    /\ ~exited
    /\ children' = Append(children, [slice |-> WithSlice(fields), given |-> toZapFields(fields),
                                     logged |-> FALSE, seen |-> << >>])
    /\ UNCHANGED <<loggerVars, derived, wrapped, made, tracerVars, exited, zapFieldPool, buffers, pcall, pooled>>

\* A write through a child logger, which adds the fields With was given.
ChildWrite(c) ==
    /\ ~exited
    /\ c \in DOMAIN children
    /\ ~children[c].logged
    /\ children' = [children EXCEPT ![c].logged = TRUE, ![c].seen = ChildFields(children[c])]
    /\ UNCHANGED <<loggerVars, derived, wrapped, made, tracerVars, exited, zapFieldPool, buffers, pcall, pooled>>


\* Ion.Tracer up to its test of tracingDisabledLogged: with tracing on, the
\* OTEL tracer is returned at once; otherwise the flag is read, with no lock.
TracerBegin(w) ==
    /\ state = "Active" /\ ~exited /\ ~panicked
    /\ tpc[w].pc = "idle"
    /\ IF cfg.Tracing.Enabled /\ tracerProvider /= "nil"
       THEN /\ tracerOut' = [tracerOut EXCEPT !.results = Append(@, [w |-> w, tracer |-> "otel"])]
            /\ UNCHANGED tpc
       ELSE /\ tpc' = [tpc EXCEPT ![w] = [pc |-> "checked", seen |-> tracingDisabledLogged]]
            /\ UNCHANGED tracerOut
    /\ UNCHANGED <<poolVars, derived, wrapped, made, loggerVars, exited, tracingDisabledLogged>>

\* The rest of Ion.Tracer: a caller that read the flag as false sets it and
\* prints the warning; the no-op tracer is returned.
TracerFinish(w) ==
    /\ ~exited /\ ~panicked
    /\ tpc[w].pc = "checked"
    /\ tracingDisabledLogged' = (tracingDisabledLogged \/ ~tpc[w].seen)
    /\ tracerOut' = [warnings |-> IF tpc[w].seen THEN tracerOut.warnings
                                  ELSE tracerOut.warnings + 1,
                     results |-> Append(tracerOut.results, [w |-> w, tracer |-> "noop"])]
    /\ tpc' = [tpc EXCEPT ![w] = [pc |-> "idle", seen |-> FALSE]]
    /\ UNCHANGED <<poolVars, derived, wrapped, made, loggerVars, exited>>

(***************************************************************************)
(* The field constructors and the two conversions, applied to given        *)
(* arguments.  An argument is the value handed to the constructor, as an   *)
(* interface value.                                                       *)
(***************************************************************************)
Apply(ctor, key, arg) ==
    CASE ctor = "String" -> String(key, arg.s)
      [] ctor = "Int" -> IntField(key, arg.n)
      [] ctor = "Int64" -> Int64(key, arg.n)
      [] ctor = "Uint64" -> Uint64(key, arg.n)
      [] ctor = "Float64" -> Float64(key, arg.s)
      [] ctor = "Bool" -> Bool(key, arg.n = 1)
      [] ctor = "Err" -> Err(arg.s)
      [] ctor = "F" -> F(key, arg)

\* A caller builds a Field with one of the constructors.
Construct(ctor, key, arg) ==
    /\ made' = Append(made, [ctor |-> ctor, key |-> key, arg |-> arg,
                             field |-> Apply(ctor, key, arg),
                             converted |-> FALSE, alloc |-> << >>, transient |-> << >>])
    /\ UNCHANGED <<poolVars, loggerVars, derived, wrapped, tracerVars, exited>>

\* The Field goes through toZapFields and through toZapFieldsTransient.
Convert(k) ==
    /\ k \in DOMAIN made
    /\ ~made[k].converted
    /\ made' = [made EXCEPT ![k].converted = TRUE,
                            ![k].alloc = toZapFields(<< made[k].field >>),
                            ![k].transient = toZapFieldsTransient(<< made[k].field >>)]
    /\ UNCHANGED <<poolVars, loggerVars, derived, wrapped, tracerVars, exited>>

(***************************************************************************)
(* Loggers derived through With and Named.  A zapLogger holds a            *)
(* zap.AtomicLevel, which is a handle on a cell, and a pointer to the log  *)
(* provider; a derived logger is a new struct with both copied from its    *)
(* parent.  Cell 0 is the one NewZapLogger allocated, whose content is     *)
(* atomicLvl.  Logger 0 is the one New returned, logger h > 0 is           *)
(* derived[h].                                                             *)
(***************************************************************************)
RootLogger == [via |-> "New", atomicLvl |-> 0, otelProvider |-> otelProvider]

Logger(h) == IF h = 0 THEN RootLogger ELSE derived[h]

\* The content of the cell a logger's atomicLvl refers to.
Gate(l) == CASE l.atomicLvl = 0 -> atomicLvl

\* GetLevel on logger h.
GetLevelOf(h) == LevelString(Gate(Logger(h)))

\* With as the earlier zapLogger had it: zap, config and atomicLvl are
\* copied, the provider is not.
zapLoggerWithNoProvider(l) ==
    [via |-> "With", atomicLvl |-> l.atomicLvl, otelProvider |-> "nil"]

\* zapLogger.With: the struct it returns.
zapLoggerWith(l) ==
    [via |-> "With", atomicLvl |-> l.atomicLvl, otelProvider |-> l.otelProvider]

\* zapLogger.Named: the struct it returns.
zapLoggerNamed(l) ==
    [via |-> "Named", atomicLvl |-> l.atomicLvl, otelProvider |-> l.otelProvider]

\* A caller derives a logger from logger h.
DeriveWith(h) ==
    /\ state = "Active" /\ ~exited
    /\ h \in 0..Len(derived)
    /\ Len(derived) < MaxDerived
    /\ derived' = Append(derived, zapLoggerWith(Logger(h)))
    /\ UNCHANGED <<poolVars, loggerVars, wrapped, made, tracerVars, exited>>

DeriveNamed(h) ==
    /\ state = "Active" /\ ~exited
    /\ h \in 0..Len(derived)
    /\ Len(derived) < MaxDerived
    /\ derived' = Append(derived, zapLoggerNamed(Logger(h)))
    /\ UNCHANGED <<poolVars, loggerVars, wrapped, made, tracerVars, exited>>

\* SetLevel on a derived logger: the store goes to the cell it refers to.
DerivedSetLevel(h, level) ==
    /\ h \in 1..Len(derived)
    /\ Logger(h).atomicLvl = 0
    /\ SetLevelOn(h, level)

\* Shutdown(ctx) on a derived logger: zapLogger.Shutdown over the provider
\* pointer that logger holds.
DerivedShutdown(h, deadline) ==
    /\ state = "Active" /\ ~exited
    /\ h \in 1..Len(derived)
    /\ sd.pc = "idle"
    /\ Len(results) < MaxShutdowns
    /\ LET plan == zapLoggerShutdownPlan(Logger(h).otelProvider)
           base == [IdleShutdown EXCEPT !.call = Len(results) + 1, !.kind = "derived",
                                        !.deadline = deadline]
       IN Invoke(Len(results) + 1, Head(plan), Tail(plan), base)
    /\ UNCHANGED <<poolVars, derived, wrapped, setBy, made, tracerVars, got, constructed, globalLogger, errorOutput, state, cfg, atomicLvl, cores, onFatal, otelProvider, tracerProvider,
                   warnings, out, wpc, writes, exited, panicked, results, nSetLevel>>

(***************************************************************************)
(* The filtering core on its own: wrappers as the factories build them,    *)
(* the wrappers their With returns, and the fields their inner cores are   *)
(* handed.  An inner core keeps the fields given to its With as its        *)
(* context and writes them in front of the fields of each call.            *)
(***************************************************************************)
\* A With that hands the inner core every field.
filteringCoreWithUnfiltered(c, fields) ==
    [filterKeys |-> c.filterKeys, context |-> c.context \o fields,
     attached |-> c.attached \o fields]

\* filteringCore.With: a new wrapper with the same keys around the inner
\* core's With of the fields that are not filtered.
filteringCoreWith(c, fields) ==
    [filterKeys |-> c.filterKeys,
     context |-> c.context \o FilterFields(fields, c.filterKeys),
     attached |-> c.attached \o fields]

\* A caller attaches fields to wrapper k.
FilterWith(k, fields) ==
    /\ k \in DOMAIN wrapped.cores
    /\ Len(wrapped.cores) < Len(FactoryWrappers) + MaxFilterWiths
    /\ wrapped' = [wrapped EXCEPT
                      !.cores = Append(@, filteringCoreWith(wrapped.cores[k], fields))]
    /\ UNCHANGED <<poolVars, loggerVars, derived, made, tracerVars, exited>>

\* A record with these fields is written through wrapper k: the inner core
\* is handed the fields that are not filtered and writes its context and them.
FilterWrite(k, fields) ==
    /\ k \in DOMAIN wrapped.cores
    /\ Len(wrapped.written) < MaxFilterWrites
    /\ LET c == wrapped.cores[k]
       IN wrapped' = [wrapped EXCEPT
                         !.written = Append(@,
                             [filterKeys |-> c.filterKeys, attached |-> c.attached,
                              passed |-> fields,
                              fields |-> c.context \o FilterFields(fields, c.filterKeys)])]
    /\ UNCHANGED <<poolVars, loggerVars, derived, made, tracerVars, exited>>

(***************************************************************************)
(* Properties.                                                             *)
(***************************************************************************)
Delivered(id, s) == \E k \in DOMAIN out[s] : out[s][k].id = id

\* The streams an enabled sink of the configuration writes to.
SinkStreams(sink) ==
    CASE sink = "console" -> IF cfg.Console.Enabled THEN {"stdout", "stderr"} ELSE {}
      [] sink = "file" -> IF cfg.File.Enabled THEN {"file"} ELSE {}
      [] sink = "otel" -> IF cfg.OTEL.Enabled THEN {"otel"} ELSE {}

EnabledSinks == {sink \in {"console", "file", "otel"} : SinkStreams(sink) /= {}}

\* C1: a Critical call neither exits the process nor panics, and once it has
\* returned its record has been handed to every enabled sink.
C1_CriticalReturnsAndReachesEverySink ==
    /\ ~exited
    /\ ~panicked
    /\ \A id \in DOMAIN writes :
          (writes[id].lvl = CriticalLevel /\ writes[id].done)
              => \A sink \in EnabledSinks : \E s \in SinkStreams(sink) : Delivered(id, s)

C1_Witness ==
    \E id \in DOMAIN writes :
        /\ writes[id].lvl = CriticalLevel /\ writes[id].done
        /\ writes[id].err = "boom"
        /\ EnabledSinks = {"console", "file", "otel"}
        /\ Delivered(id, "stderr") /\ Delivered(id, "file") /\ Delivered(id, "otel")


\* The collaborators a Shutdown call invoked, in order.
CallOps(call) ==
    LET RECURSIVE ops(_)
        ops(k) == IF k = 0 THEN << >>
                  ELSE IF events[k].call = call THEN Append(ops(k - 1), events[k].op)
                  ELSE ops(k - 1)
    IN ops(Len(events))

C3_SecondShutdownIsNoOp ==
    /\ \A r \in DOMAIN results : r >= 2 => results[r].err = {}
    /\ \A i \in DOMAIN events : \A j \in DOMAIN events :
          (events[i].call = 1 /\ events[j].call >= 2) => events[j].op /= events[i].op

\* C4: a Shutdown call that has returned invoked every collaborator of both
\* phases, and the error it returned names every collaborator that failed.
C4_ShutdownReturnsEveryFailure ==
    \A r \in DOMAIN results :
        /\ "sync" \in {CallOps(results[r].call)[k] : k \in DOMAIN CallOps(results[r].call)}
        /\ results[r].failed \subseteq results[r].err

LogProviderInvokedBefore(id) ==
    \E k \in 1..writes[id].seen : events[k].op = "otel"

\* C6 as stated: every write emitted while the instance is Draining reaches
\* the console, and none reaches the remote exporter.
C6_DrainingStopsRemote ==
    \A id \in DOMAIN writes :
        (writes[id].done /\ writes[id].admitted /\ writes[id].phase = "Draining")
            => /\ Delivered(id, "stdout")
               /\ ~Delivered(id, "otel")

\* C6 (amended): a write emitted after a shutdown request still reaches the
\* console; it reaches the remote exporter exactly when the log provider's
\* Shutdown had not yet been invoked, which under Ion.Shutdown is only after
\* the tracer provider has answered.
C6_RemoteStopsAtLogProviderShutdown ==
    \A id \in DOMAIN writes :
        (writes[id].done /\ writes[id].admitted)
            => /\ Delivered(id, "stdout")
               /\ (Delivered(id, "otel") <=> (cfg.OTEL.Enabled /\ ~LogProviderInvokedBefore(id)))

C6_Witness ==
    \E id \in DOMAIN writes :
        /\ writes[id].done /\ writes[id].admitted
        /\ writes[id].phase = "Draining"
        /\ cfg.OTEL.Enabled
        /\ LogProviderInvokedBefore(id)
        /\ Delivered(id, "stdout")


EnabledSinkLevels(c) ==
    (IF c.Console.Enabled THEN {consoleLevel(c)} ELSE {})
        \cup (IF c.File.Enabled THEN {fileLevel(c)} ELSE {})
        \cup (IF c.OTEL.Enabled THEN {otelLevel(c)} ELSE {})

SetMin(S) == CHOOSE m \in S : \A x \in S : m <= x

\* C8 as stated: after construction the gate is exactly the lowest minimum
\* severity among the enabled sinks.
C8_GateIsMinOfEnabledSinks ==
    (state = "Active" /\ EnabledSinkLevels(cfg) /= {})
        => atomicLvl = SetMin(EnabledSinkLevels(cfg))

\* C8 (amended): after construction the gate is the lowest of the global
\* level and the minimum severities of the enabled sinks; it is never above
\* what an enabled sink needs, and disabled sinks do not enter it.
C8_GateIsMinOfGlobalAndEnabledSinks ==
    state = "Active"
        => /\ atomicLvl = SetMin({globalLevel(cfg)} \cup EnabledSinkLevels(cfg))
           /\ \A l \in EnabledSinkLevels(cfg) : atomicLvl <= l

C8_Witness ==
    /\ state = "Active"
    /\ cfg.Console.Enabled /\ consoleLevel(cfg) = WarnLevel
    /\ cfg.File.Enabled /\ fileLevel(cfg) = DebugLevel
    /\ ~cfg.OTEL.Enabled /\ cfg.OTEL.Level = "error"
    /\ globalLevel(cfg) = InfoLevel
    /\ atomicLvl = DebugLevel

HasKey(fields, key) == \E k \in DOMAIN fields : fields[k].Key = key

HasString(fields, key, value) ==
    \E k \in DOMAIN fields :
        fields[k].Key = key /\ fields[k].Type = "StringType" /\ fields[k].String = value

\* The record of write `id` as stream `s` received it.
RecordAt(id, s) == out[s][CHOOSE k \in DOMAIN out[s] : out[s][k].id = id]

CorrelationKeys == {"trace_id", "span_id", "request_id", "user_id"}

\* C9: for a write made under an active span, the console and file records
\* carry trace_id and span_id as strings and not the carrier, and the record
\* handed to the remote exporter carries the carrier and not the strings.
C9_LocalStringsRemoteCarrier ==
    \A id \in DOMAIN writes :
        (writes[id].done /\ writes[id].ctx = "traced")
            => /\ \A s \in LocalStreams :
                     Delivered(id, s)
                        => /\ HasString(RecordAt(id, s).fields, "trace_id", ActiveTraceID)
                           /\ HasString(RecordAt(id, s).fields, "span_id", ActiveSpanID)
                           /\ ~HasKey(RecordAt(id, s).fields, SentinelKey)
               /\ Delivered(id, "otel")
                     => /\ HasKey(RecordAt(id, "otel").fields, SentinelKey)
                        /\ ~HasKey(RecordAt(id, "otel").fields, "trace_id")
                        /\ ~HasKey(RecordAt(id, "otel").fields, "span_id")

\* C10 as stated: a write whose context has no span and no custom values
\* runs no extraction and gets neither correlation fields nor the carrier.
C10_EmptyContextSkipsExtraction ==
    \A id \in DOMAIN writes :
        writes[id].ctx \in {"nil", "background", "todo", "derived"}
            => /\ ~writes[id].extracted
               /\ ~HasKey(writes[id].fields, SentinelKey)
               /\ \A key \in CorrelationKeys : ~HasKey(writes[id].fields, key)

\* C10 (amended): extraction is skipped, and nothing attached, exactly for
\* nil and the two empty singletons.  For any other context without span or
\* custom values the extraction runs and finds nothing and the carrier is
\* attached; every sink's filter removes it, so no delivered record has
\* correlation fields or the carrier.
C10_SingletonsSkipExtraction ==
    \A id \in DOMAIN writes :
        LET e == writes[id]
        IN (e.admitted /\ e.ctx \in {"nil", "background", "todo", "derived"})
            => /\ e.extracted <=> (e.ctx = "derived")
               /\ HasKey(e.fields, SentinelKey) <=> (e.ctx = "derived")
               /\ \A key \in CorrelationKeys : ~HasKey(e.fields, key)
               /\ \A s \in Streams :
                     Delivered(id, s)
                        => \A key \in CorrelationKeys \cup {SentinelKey} :
                              ~HasKey(RecordAt(id, s).fields, key)

C10_Witness ==
    \E id \in DOMAIN writes :
        /\ writes[id].ctx = "derived" /\ writes[id].done
        /\ writes[id].extracted
        /\ Delivered(id, "stdout") /\ Delivered(id, "file") /\ Delivered(id, "otel")


\* The streams whose core admits a severity by its own minimum.
AdmittingStreams(lvl) ==
    {cores[i].stream : i \in {j \in DOMAIN cores : CoreEnabled(cores[j], lvl)}}

\* C11: with two or more sinks, a record that passed the gate is written to
\* exactly the sinks whose own minimum severity admits it, whatever the
\* other sinks decide.
C11_FanOutFiltersPerSink ==
    \A id \in DOMAIN writes :
        (writes[id].gated /\ writes[id].admitted /\ writes[id].done /\ Len(cores) >= 2)
            => \A s \in Streams : Delivered(id, s) <=> s \in AdmittingStreams(writes[id].lvl)

C11_Witness ==
    \E id \in DOMAIN writes :
        /\ writes[id].gated /\ writes[id].admitted /\ writes[id].done
        /\ writes[id].lvl = InfoLevel
        /\ EnabledSinks = {"console", "file", "otel"}
        /\ Delivered(id, "file") /\ Delivered(id, "otel")
        /\ ~Delivered(id, "stdout") /\ ~Delivered(id, "stderr")


\* The logger a write went to has no sink at all.
ZeroSinkWrite(id) ==
    \/ writes[id].via = "nop"
    \/ writes[id].via = "instance" /\ state = "Active" /\ cores = << >>

\* C12: with zero sinks a write at any severity, Critical included, returns
\* without exiting or panicking and leaves nothing on any stream.
C12_ZeroSinksAcceptAndDiscard ==
    \A id \in DOMAIN writes :
        (ZeroSinkWrite(id) /\ writes[id].done)
            => /\ ~exited /\ ~panicked
               /\ \A s \in Streams : ~Delivered(id, s)


\* The minimum severity a sink was configured with.
SinkLevel(sink) ==
    CASE sink = "console" -> consoleLevel(cfg)
      [] sink = "file" -> fileLevel(cfg)
      [] sink = "otel" -> otelLevel(cfg)

\* C13: a sink with minimum severity S2 emits no record below S2, on any of
\* its streams, and emits every record at S2 or above that passed the gate.
C13_SinkFilterIsMonotonic ==
    \A id \in DOMAIN writes : \A sink \in EnabledSinks :
        (writes[id].done /\ writes[id].via = "instance")
            => /\ writes[id].lvl < SinkLevel(sink)
                    => \A s \in SinkStreams(sink) : ~Delivered(id, s)
               /\ (writes[id].admitted /\ writes[id].lvl >= SinkLevel(sink))
                    => \E s \in SinkStreams(sink) : Delivered(id, s)

C13_Witness ==
    \E lo \in DOMAIN writes : \E hi \in DOMAIN writes :
        /\ cfg.Console.Enabled /\ cfg.Console.ErrorsToStderr
        /\ SinkLevel("console") = ErrorLevel
        /\ writes[lo].done /\ writes[lo].admitted /\ writes[lo].lvl = WarnLevel
        /\ ~Delivered(lo, "stdout") /\ ~Delivered(lo, "stderr") /\ Delivered(lo, "file")
        /\ writes[hi].done /\ writes[hi].lvl = ErrorLevel
        /\ Delivered(hi, "stderr") /\ ~Delivered(hi, "stdout")


\* C14: a record the console sink accepts goes to exactly one stream: with
\* the split, stdout below warn and stderr from warn up; without it, stdout.
C14_ConsoleSplitAtWarn ==
    \A id \in DOMAIN writes :
        (writes[id].done /\ writes[id].admitted /\ writes[id].via = "instance"
            /\ cfg.Console.Enabled /\ writes[id].lvl >= consoleLevel(cfg))
            => LET toStderr == cfg.Console.ErrorsToStderr /\ writes[id].lvl >= WarnLevel
               IN /\ Delivered(id, "stderr") <=> toStderr
                  /\ Delivered(id, "stdout") <=> ~toStderr

C14_Witness ==
    \E lo \in DOMAIN writes : \E hi \in DOMAIN writes :
        /\ cfg.Console.Enabled /\ cfg.Console.ErrorsToStderr
        /\ writes[lo].done /\ writes[lo].lvl = InfoLevel
        /\ Delivered(lo, "stdout") /\ ~Delivered(lo, "stderr")
        /\ writes[hi].done /\ writes[hi].lvl = WarnLevel
        /\ Delivered(hi, "stderr") /\ ~Delivered(hi, "stdout")


\* The enabled sinks that have no level of their own and take the global one.
InheritingSinks ==
    {sink \in EnabledSinks :
        CASE sink = "console" -> cfg.Console.Level = ""
          [] sink = "file" -> cfg.File.Level = ""
          [] sink = "otel" -> cfg.OTEL.Level = ""}

\* C15: a write issued after SetLevel(L) (its call read the gate L, which is
\* not the gate of construction) is emitted by every sink that inherits the
\* global level when its severity is at or above L, and by none when below.
C15_SetLevelGovernsInheritingSinks ==
    \A id \in DOMAIN writes : \A sink \in InheritingSinks :
        (writes[id].done /\ writes[id].gated /\ writes[id].via = "instance"
            /\ writes[id].gate /= minLevel(cfg))
            => IF writes[id].lvl >= writes[id].gate
               THEN \E s \in SinkStreams(sink) : Delivered(id, s)
               ELSE \A s \in SinkStreams(sink) : ~Delivered(id, s)


\* C16: no operation, whether called on an instance or through the
\* package-level functions, with or without a stored global logger, ends
\* the process or panics.
C16_NoOperationExitsOrPanics == ~(exited \/ panicked)


\* C17: a pooled field buffer belongs to the one call that borrowed it: no
\* other call holds it and it is not in the pool meanwhile; a call that
\* returned gave its buffer back exactly once, and only after its cores had
\* read it; what the cores read and what the exporter later sends are the
\* fields of that call; no child logger keeps a pooled buffer.
HeldBy(b) == { w \in Writers : pcall[w].buf = b }
FailedSetups == { constructed[i][1] : i \in { k \in DOMAIN constructed : constructed[k][2] = "err" } }

\* C18: when the setup of the remote log exporter or of the tracer fails,
\* New still returns an instance, with the cores of the other sinks, and
\* reports the failure as a Warning naming that component.
C18_SetupFailureIsAWarning ==
    (FailedSetups /= {})
        => /\ state = "Active"
           /\ FailedSetups \subseteq warnings
           /\ cores = BuildCores(cfg, cfg.OTEL.Enabled /\ cfg.OTEL.Endpoint /= ""
                                         /\ "otel" \notin FailedSetups)


\* The settings of a Config that are invalid.
InvalidSettings(c) ==
    (IF c.Level /= "" /\ c.Level \notin ValidLevels THEN {"level"} ELSE {})
    \cup (IF c.File.Enabled /\ c.File.Path = "" THEN {"file.path"} ELSE {})
    \cup (IF c.OTEL.Enabled /\ c.OTEL.Endpoint = "" THEN {"otel.endpoint"} ELSE {})
    \cup (IF c.Tracing.Enabled /\ c.OTEL.Endpoint = "" THEN {"tracing.endpoint"} ELSE {})

C20_WriteErrorsStayInside ==
    \A id \in DOMAIN writes :
        (writes[id].done /\ writes[id].failed /= {})
            => /\ ~exited /\ ~panicked
               /\ \A s \in Streams : writes[id].attempts[s] <= 1
               /\ \A s \in writes[id].failed : ~Delivered(id, s)
               /\ \A s \in LocalStreams \ writes[id].failed :
                     (writes[id].attempts[s] = 1) => Delivered(id, s)
               /\ \E k \in DOMAIN errorOutput :
                     errorOutput[k] = [id |-> id, streams |-> writes[id].failed]

\* C20 witness: a Critical call whose file write failed has returned, its
\* record reached the console, and a later call wrote to the file again.
C20_Witness ==
    \E id \in DOMAIN writes : \E later \in DOMAIN writes :
        /\ writes[id].done /\ writes[id].lvl = CriticalLevel
        /\ writes[id].failed = {"file"}
        /\ Delivered(id, "stderr")
        /\ id < later
        /\ writes[later].done /\ Delivered(later, "file")


\* The position of the record of write `id` in stream `s`.
PositionIn(id, s) == CHOOSE k \in DOMAIN out[s] : out[s][k].id = id

\* C21: two writes issued one after the other by the same caller appear, in
\* every stream that received both, in the order the calls were issued.
C21_CallerOrderKeptInEverySink ==
    \A i \in DOMAIN writes : \A j \in DOMAIN writes :
        (i < j /\ writes[i].w = writes[j].w)
            => \A s \in Streams :
                  (Delivered(i, s) /\ Delivered(j, s)) => PositionIn(i, s) < PositionIn(j, s)

\* C21 witness: one caller's two writes both reached the file and the
\* remote exporter.
C21_Witness ==
    \E i \in DOMAIN writes : \E j \in DOMAIN writes :
        /\ i < j /\ writes[i].w = writes[j].w
        /\ writes[i].lvl /= writes[j].lvl
        /\ Delivered(i, "file") /\ Delivered(j, "file")
        /\ Delivered(i, "otel") /\ Delivered(j, "otel")


\* C22: every GetGlobal call returned a logger that can be used, the stored
\* one when one was stored and nopLogger otherwise, and no package-level
\* log function has panicked.
C22_GetGlobalNeverNilNeverPanics ==
    /\ \A k \in DOMAIN got :
          /\ got[k].result \notin {"nil", "typednil"}
          /\ (got[k].stored /= "nil") => got[k].result = got[k].stored
          /\ (got[k].stored = "nil") => got[k].result = "nop"
    /\ ~panicked


\* C23: with tracing not enabled every Tracer call returns the no-op tracer,
\* and once one has returned the warning has been printed exactly once.
C23_TracingDisabledWarnedOnce ==
    /\ tracerOut.warnings <= 1
    /\ \A k \in DOMAIN tracerOut.results :
          (tracerOut.results[k].tracer = "noop") => tracerOut.warnings = 1
    /\ (~cfg.Tracing.Enabled \/ tracerProvider = "nil")
          => \A k \in DOMAIN tracerOut.results : tracerOut.results[k].tracer = "noop"


\* The names given to SetLevel, and those of them it accepts.
SetLevelInputs == {"debug", "warn", "Error", "", "verbose"}
RecognisedNames == { l \in SetLevelInputs : UnmarshalText(l).ok }

SlotOf(type) ==
    CASE type = "StringType" -> "StringVal"
      [] type \in {"Int64Type", "BoolType"} -> "Integer"
      [] type = "Float64Type" -> "Float"
      [] OTHER -> "Interface"
PopulatedSlots(f) ==
    (IF f.Integer /= 0 THEN {"Integer"} ELSE {})
    \cup (IF f.StringVal /= "" THEN {"StringVal"} ELSE {})
    \cup (IF f.Float /= ZeroFloat THEN {"Float"} ELSE {})
    \cup (IF f.Interface.kind /= "nil" THEN {"Interface"} ELSE {})

\* C25: every Field a constructor produced has a non-empty key and no
\* payload outside the slot of its type tag.
C25_OneSlotAndAKey ==
    \A k \in DOMAIN made :
        /\ made[k].field.Key /= ""
        /\ PopulatedSlots(made[k].field) \subseteq {SlotOf(made[k].field.Type)}


\* The typed value a sink reads from a zap field, and the one a primitive
\* constructor was given (an int is widened to int64).
Decoded(z) ==
    CASE z.Type = "StringType" -> Iface("string", z.String, 0)
      [] z.Type = "Int64Type" -> Iface("int64", "", z.Integer)
      [] z.Type = "Uint64Type" -> Iface("uint64", "", ToUint64(z.Integer))
      [] z.Type = "Float64Type" -> Iface("float64", Float64frombits(z.Integer), 0)
      [] z.Type = "BoolType" -> Iface("bool", "", z.Integer)
      [] OTHER -> z.Interface
Given(arg) == IF arg.kind = "int" THEN Iface("int64", "", arg.n) ELSE arg
PrimitiveConstructors == {"String", "Int", "Int64", "Uint64", "Float64", "Bool"}

\* C26: a Field built by a primitive constructor converts, on the
\* allocating path and on the pooled path alike, to one zap field with the
\* key and the typed value the constructor was given.
C26_PrimitiveFieldsRoundTrip ==
    \A k \in DOMAIN made :
        (made[k].converted /\ made[k].ctor \in PrimitiveConstructors)
            => /\ Len(made[k].alloc) = 1 /\ Len(made[k].transient) = 1
               /\ made[k].alloc[1].Key = made[k].key
               /\ Decoded(made[k].alloc[1]) = Given(made[k].arg)
               /\ made[k].transient[1].Key = made[k].key
               /\ Decoded(made[k].transient[1]) = Given(made[k].arg)

\* C26 witness: the largest unsigned value, which the zap field holds as a
\* negative integer, and a float have both gone through the conversions.
C26_Witness ==
    /\ \E k \in DOMAIN made :
          /\ made[k].converted /\ made[k].ctor = "Uint64" /\ made[k].arg.n = MaxUint
          /\ made[k].alloc[1].Integer < 0
          /\ made[k].transient = made[k].alloc
    /\ \E k \in DOMAIN made :
          /\ made[k].converted /\ made[k].ctor = "Float64" /\ made[k].arg.s = "1.5"


C28_DerivedShareGateAndProvider ==
    /\ [](\A h \in 1..Len(derived) :
             /\ Logger(h).atomicLvl = RootLogger.atomicLvl
             /\ Logger(h).otelProvider = RootLogger.otelProvider
             /\ GetLevelOf(h) = GetLevelOf(0))
    /\ []((sd.pc /= "idle" /\ sd.kind \in {"logger", "derived"} /\ otelProvider /= "nil")
             => /\ \E e \in DOMAIN events : events[e] = [call |-> sd.call, op |-> "otel"]
                /\ otelStopped)
    /\ [](\A k \in DOMAIN results :
             (results[k].kind \in {"logger", "derived"} /\ otelProvider /= "nil")
                => /\ \E e \in DOMAIN events :
                         events[e] = [call |-> results[k].call, op |-> "otel"]
                   /\ otelStopped)
    /\ [][\A h \in 0..Len(derived), l \in SetLevelInputs :
             (SetLevelOn(h, l) /\ UnmarshalText(l).ok)
                => \A j \in 0..Len(derived) :
                      GetLevelOf(j)' = LevelString(UnmarshalText(l).lvl)]_vars

C28_Witness ==
    /\ \E h \in 1..Len(derived) : derived[h].via = "With"
    /\ \E h \in 1..Len(derived) : derived[h].via = "Named"
    /\ \E h \in setBy : h > 0
    /\ GetLevelOf(0) /= LevelString(minLevel(cfg))
    /\ otelProvider /= "nil"
    /\ \E k \in DOMAIN results : results[k].kind = "derived"
\* The level names: zap's seven, in any letter case.
IsLevelName(level) ==
    ToLower(level) \in {"debug", "info", "warn", "error", "dpanic", "panic", "fatal"}

\* C29: a SetLevel with a string that is not a level name leaves the gate as
\* it was: GetLevel returns what it returned before, and the gate and the
\* cores that filter later writes are unchanged.
C29_UnrecognisedNameLeavesGate ==
    [][\A l \in SetLevelInputs :
          (~IsLevelName(l) /\ SetLevel(l))
             => /\ GetLevel' = GetLevel
                /\ atomicLvl' = atomicLvl
                /\ cores' = cores]_vars
\* C30: what the inner core of a filtering wrapper writes is the fields
\* attached through With followed by the fields of the call, without those
\* whose key is one of the wrapper's filter keys, the others as given and in
\* the order given.
C30_FilterRemovesExactlyFilterKeys ==
    \A n \in DOMAIN wrapped.written :
        LET r == wrapped.written[n]
        IN r.fields = SelectSeq(r.attached \o r.passed,
                                LAMBDA f : f.Key \notin r.filterKeys)

\* C30 witness: a record written through a wrapper made by With, with a
\* filter key among the attached fields and among the fields of the call,
\* one of them a plain string the user supplied, and fields left over.
C30_Witness ==
    \E n \in DOMAIN wrapped.written :
        LET r == wrapped.written[n]
        IN /\ \E i \in DOMAIN r.attached :
                 r.attached[i].Key \in r.filterKeys /\ r.attached[i].String = "mine"
           /\ \E i \in DOMAIN r.passed :
                 r.passed[i].Key \in r.filterKeys /\ r.passed[i].Type = "ReflectType"
           /\ Len(r.fields) >= 2
           /\ Len(r.fields) < Len(r.attached) + Len(r.passed)

(***************************************************************************)
(* Specifications.                                                         *)
(***************************************************************************)
Setups == {"ok", "err"}
NoFields == << >>
UserFields == << String("k", "v") >>

\* The gate and the sinks: concurrent callers at every severity, SetLevel.
GateConfigs ==
    { MkConfig(l, c[1], c[2], c[3], s[1], IF s[1] THEN "/var/log/app.log" ELSE "", "",
               s[2], IF s[2] THEN "collector:4317" ELSE "", "", FALSE) :
        l \in {"info"},
        c \in { <<FALSE, "", FALSE>>, <<TRUE, "", FALSE>>,
                <<TRUE, "debug", TRUE>>, <<TRUE, "error", TRUE>> },
        s \in { <<FALSE, FALSE>>, <<TRUE, TRUE>> } }

LevelNames == {"debug", "error", "verbose"}

Next ==
    \/ \E c \in GateConfigs : New(c, "ok", "ok")
    \/ \E w \in Writers, lvl \in {DebugLevel, InfoLevel, WarnLevel, ErrorLevel} :
          LogBegin(w, lvl, CtxBackground, "nil", NoFields)
    \/ \E w \in Writers : CriticalBegin(w, CtxBackground, "nil", NoFields)
    \/ \E w \in Writers : LogEmit(w)
    \/ \E l \in LevelNames : SetLevel(l)

Spec == Init /\ [][Next]_vars

\* Correlation: one caller, every kind of context, every sink combination.
FieldConfigs ==
    { MkConfig("info", c[1], c[2], c[3], f, IF f THEN "/var/log/app.log" ELSE "", "",
               o, IF o THEN "collector:4317" ELSE "", "", FALSE) :
        c \in { <<FALSE, "", FALSE>>, <<TRUE, "", FALSE>>, <<TRUE, "error", TRUE>> },
        f \in BOOLEAN, o \in BOOLEAN }

MaxFieldWrites == 1

NextFields ==
    \/ \E c \in FieldConfigs : New(c, "ok", "ok")
    \/ \E ctx \in AllContexts, err \in {"nil", "boom"}, fs \in {NoFields, UserFields} :
          /\ Len(writes) < MaxFieldWrites
          /\ \/ LogBegin("w1", InfoLevel, ctx, "nil", fs)
             \/ LogBegin("w1", ErrorLevel, ctx, err, fs)
             \/ CriticalBegin("w1", ctx, err, fs)
    \/ LogEmit("w1")

SpecFields == Init /\ [][NextFields]_vars

\* Construction alone, over every combination of sink settings.
AllConfigs ==
    { MkConfig(l, c[1], c[2], c[3], f[1], f[2], f[3], o[1], o[2], o[3], t) :
        l \in {"debug", "info", "error", "loud"},
        c \in BOOLEAN \X {"", "debug", "warn"} \X {FALSE},
        f \in BOOLEAN \X {"", "/var/log/app.log"} \X {"", "debug"},
        o \in BOOLEAN \X {"", "collector:4317"} \X {"", "error"},
        t \in BOOLEAN }

NextNew == \E c \in AllConfigs, o \in Setups, t \in Setups : New(c, o, t)

SpecNew == Init /\ [][NextNew]_vars

\* Shutdown, with a caller that keeps logging while it runs.
MaxDrainWrites == 1

ShutdownConfigs ==
    { MkConfig("info", TRUE, "", FALSE, FALSE, "", "",
               o, "collector:4317", "", t) : o \in BOOLEAN, t \in BOOLEAN }

NextShutdown ==
    \/ \E c \in ShutdownConfigs, t \in Setups : New(c, "ok", t)
    \/ \E kind \in {"ion", "logger"}, deadline \in BOOLEAN : ShutdownCall(kind, deadline)
    \/ \E outcome \in {"ok", "fail", "unfinished"} : ShutdownStep(outcome)
    \/ (Len(writes) < MaxDrainWrites /\ LogBegin("w1", InfoLevel, CtxBackground, "nil", NoFields))
    \/ LogEmit("w1")

SpecShutdown == Init /\ [][NextShutdown]_vars

\* The package-level accessors: callers that log through GetGlobal() before
\* and after an instance is stored, next to callers that hold the instance.
GlobalConfigs ==
    { MkConfig("info", c, "", FALSE, FALSE, "", "", FALSE, "", "", FALSE) : c \in BOOLEAN }

MaxGlobalWrites == 2
MaxPooledCalls == 2
MaxChildren == 1
MaxFailureWrites == 2
MaxGets == 2
MaxTracerCalls == 3
MaxLevelWrites == 1
MaxMade == 2

NextGlobal ==
    \/ \E c \in GlobalConfigs : New(c, "ok", "ok")
    \/ \E logger \in {"nil", "ion"} : SetGlobal(logger)
    \/ \E w \in Writers, lvl \in {DebugLevel, InfoLevel, ErrorLevel} :
          Len(writes) < MaxGlobalWrites
              /\ GlobalLogBegin(w, lvl, CtxBackground, "nil", NoFields)
    \/ \E w \in Writers, lvl \in {DebugLevel, InfoLevel, ErrorLevel} :
          Len(writes) < MaxGlobalWrites
              /\ LogBegin(w, lvl, CtxBackground, "nil", NoFields)
    \/ \E w \in Writers :
          Len(writes) < MaxGlobalWrites
              /\ GlobalCriticalBegin(w, CtxBackground, "nil", NoFields)
    \/ \E w \in Writers :
          Len(writes) < MaxGlobalWrites
              /\ CriticalBegin(w, CtxBackground, "nil", NoFields)
    \/ \E w \in Writers : LogEmit(w)

SpecGlobal == Init /\ [][NextGlobal]_vars

\* The pooled field conversion: concurrent callers of the level methods, the
\* exporter, child loggers.
PooledInputs ==
    { <<InfoLevel, "nil">>, <<ErrorLevel, "boom">>, <<FatalLevel, "nil">> }
NextPooled ==
    \/ \E w \in Writers : \E in \in PooledInputs :
       \E fields \in {NoFields, UserFields} :
          /\ Len(pooled) < MaxPooledCalls
          /\ PooledBegin(w, in[1], in[2], fields)
    \/ \E w \in Writers : PooledWrite(w)
    \/ \E w \in Writers : putZapFields(w)
    \/ \E id \in 1..MaxPooledCalls + 1 : PooledExport(id)
    \/ \E fields \in {UserFields} :
          /\ Len(children) < MaxChildren
          /\ With(fields)
    \/ \E c \in 1..MaxChildren + 1 : ChildWrite(c)
SpecPooled == Init /\ [][NextPooled]_vars

\* Write-time failures: sinks whose Write fails during some of the calls.
FailureConfigs ==
    { MkConfig("info", TRUE, "", split, TRUE, "/var/log/app.log", "", o,
               IF o THEN "collector:4317" ELSE "", "", FALSE) :
        split \in BOOLEAN, o \in BOOLEAN }
NextFailures ==
    \/ \E c \in FailureConfigs : New(c, "ok", "ok")
    \/ \E w \in Writers : \E lvl \in {InfoLevel, ErrorLevel} :
          /\ Len(writes) < MaxFailureWrites
          /\ LogBegin(w, lvl, CtxBackground, "nil", NoFields)
    \/ \E w \in Writers :
          /\ Len(writes) < MaxFailureWrites
          /\ CriticalBegin(w, CtxBackground, "nil", NoFields)
    \/ \E w \in Writers : LogEmit(w)
    \/ \E w \in Writers : \E failing \in SUBSET LocalStreams : LogEmitFailing(w, failing)
SpecFailures == Init /\ [][NextFailures]_vars

\* The global accessor: SetGlobal with whatever New returned, GetGlobal and
\* the package-level functions, from concurrent callers.
AccessorConfigs ==
    { MkConfig(l, TRUE, "", FALSE, FALSE, "", "", FALSE, "", "", FALSE) : l \in {"info", "loud"} }
NextAccessors ==
    \/ \E c \in AccessorConfigs : New(c, "ok", "ok")
    \/ \E logger \in {"nil", "ion", "typednil"} : SetGlobal(logger)
    \/ (Len(got) < MaxGets /\ GetGlobalCall)
    \/ \E w \in Writers : \E lvl \in {DebugLevel, InfoLevel} :
          /\ Len(writes) < MaxGlobalWrites
          /\ GlobalLogBegin(w, lvl, CtxBackground, "nil", NoFields)
    \/ \E w \in Writers : LogEmit(w)
SpecAccessors == Init /\ [][NextAccessors]_vars

\* The Tracer accessor called from concurrent goroutines.
TracerConfigs ==
    { MkConfig("info", c, "", FALSE, FALSE, "", "", FALSE, "collector:4317", "", t) :
        c \in BOOLEAN, t \in BOOLEAN }
NextTracer ==
    \/ \E c \in TracerConfigs, t \in Setups : New(c, "ok", t)
    \/ \E w \in Writers :
          /\ Len(tracerOut.results) + Cardinality({v \in Writers : tpc[v].pc /= "idle"})
                < MaxTracerCalls
          /\ TracerBegin(w)
    \/ \E w \in Writers : TracerFinish(w)
SpecTracer == Init /\ [][NextTracer]_vars

\* The level accessors: SetLevel with names of every kind, between writes.
LevelConfigs ==
    { MkConfig(l, TRUE, cl, FALSE, fo, IF fo THEN "/var/log/app.log" ELSE "", "",
               fo, IF fo THEN "collector:4317" ELSE "", "", FALSE) :
        l \in {"", "info", "error"}, cl \in {"", "debug"}, fo \in BOOLEAN }
NextLevels ==
    \/ \E c \in LevelConfigs : New(c, "ok", "ok")
    \/ \E l \in SetLevelInputs : SetLevel(l)
    \/ \E lvl \in {DebugLevel, InfoLevel, WarnLevel, ErrorLevel} :
          /\ Len(writes) < MaxLevelWrites
          /\ LogBegin("w1", lvl, CtxBackground, "nil", NoFields)
    \/ LogEmit("w1")
SpecLevels == Init /\ [][NextLevels]_vars

\* The field constructors over keys and values of every kind, and the
\* conversions of what they built.
ConstructorInputs ==
    ({"String"} \X {Iface("string", "v", 0), Iface("string", "", 0)})
    \cup ({"Int"} \X {Iface("int", "", 3)})
    \cup ({"Int64"} \X {Iface("int64", "", -1), Iface("int64", "", 3)})
    \cup ({"Uint64"} \X {Iface("uint64", "", 1), Iface("uint64", "", MaxUint)})
    \cup ({"Float64"} \X {Iface("float64", f, 0) : f \in Floats})
    \cup ({"Bool"} \X {Iface("bool", "", 0), Iface("bool", "", 1)})
    \cup ({"Err"} \X {Iface("error", "nil", 0), Iface("error", "boom", 0)})
    \cup ({"F"} \X {Iface("string", "v", 0), Iface("uint64", "", MaxUint),
                    Iface("error", "boom", 0), NilIface})
NextFieldValues ==
    \/ \E in \in ConstructorInputs : \E key \in {"k", ""} :
          /\ Len(made) < MaxMade
          /\ Construct(in[1], key, in[2])
    \/ \E k \in 1..MaxMade + 1 : Convert(k)
SpecFieldValues == Init /\ [][NextFieldValues]_vars

\* Loggers derived from the one New returned, and from each other, with
\* SetLevel and Shutdown called on any of them.
DerivedConfigs ==
    { MkConfig("info", TRUE, "", FALSE, FALSE, "", "",
               o, IF o THEN "collector:4317" ELSE "", "", FALSE) : o \in BOOLEAN }
DerivedLevelInputs == {"debug", "verbose"}
NextDerived ==
    \/ \E c \in DerivedConfigs : New(c, "ok", "ok")
    \/ \E h \in 0..MaxDerived : DeriveWith(h)
    \/ \E h \in 0..MaxDerived : DeriveNamed(h)
    \/ \E l \in DerivedLevelInputs : SetLevel(l)
    \/ \E h \in 1..MaxDerived, l \in DerivedLevelInputs : DerivedSetLevel(h, l)
    \/ (Len(results) < MaxDerivedShutdowns /\ ShutdownCall("logger", TRUE))
    \/ \E h \in 1..MaxDerived :
          /\ Len(results) < MaxDerivedShutdowns
          /\ DerivedShutdown(h, TRUE)
    \/ \E outcome \in {"ok", "fail"} : ShutdownStep(outcome)
SpecDerived == Init /\ [][NextDerived]_vars

\* The filtering wrappers: fields made by the pipeline for a traced context,
\* fields a user supplied under keys of their own and under filter keys,
\* attached through With or passed at the call.
FilterInputs ==
    { << >>,
      prepareFields(CtxTraced, UserFields),
      << ZString("k", "v"), ZReflect(SentinelKey, CtxIface(CtxTraced)), ZInt64("n", 1) >>,
      << ZString(SentinelKey, "mine"), ZString("k", "v"), ZString("trace_id", "mine") >>,
      << ZString("k", "v"), ZString("k", "w") >> }
NextFilter ==
    \/ \E k \in 1..Len(FactoryWrappers) + MaxFilterWiths, fields \in FilterInputs :
          FilterWith(k, fields)
    \/ \E k \in 1..Len(FactoryWrappers) + MaxFilterWiths, fields \in FilterInputs :
          FilterWrite(k, fields)
SpecFilter == Init /\ [][NextFilter]_vars

====
